---- MODULE Spec2Model ----
(***************************************************************************)
(* Model of the vetting bot's case lifecycle and poll-resolution engine:   *)
(*   src/vetting_bot/bot_commands.py  Command._start_vetting, _start_vote  *)
(*   src/vetting_bot/timer.py         Timer.start_all_timers,              *)
(*                                    wait_for_poll_end, _end_poll         *)
(*   src/vetting_bot/config.py        voting_time, min_yes_votes,          *)
(*                                    max_no_votes                         *)
(* Every coroutine is cut at its awaits: what runs between two awaits is   *)
(* one action.  The transport's answers (success, error, the pages of the  *)
(* room history) are nondeterministic inputs.                              *)
(***************************************************************************)
EXTENDS Integers, Sequences, FiniteSets, Bags, TLC

VARIABLES
    vetting,     \* the rows of the `vetting` table (durable)
    config,      \* Config: voting_time, min_yes_votes, max_no_votes
    now,         \* time.time()
    cmds,        \* the Command coroutines in flight (a bag of their locals)
    tasks,       \* the asyncio tasks made by wait_for_poll_end (a bag)
    recovered,   \* start_all_timers has run in this process
    restarts,    \* number of process restarts so far
    rooms,       \* rooms created on the homeserver: [room_id, mxid]
    results,     \* result messages published: [event_id, mxid, poll, counts, accept]
    reactions,   \* reactions published: [event_id (target), key]
    poll_ends,   \* poll.end markers published: the poll ids they reference
    polls,       \* poll.start events published: [event_id, mxid]
    ref_votes,   \* history variable: each sender's first qualifying answer
    fetch_log,   \* history variable: how each room_messages call of the
                 \* closure followed pass by pass ended: "ok", "start" (ok,
                 \* and the page holds the poll's start event), "error",
                 \* "raised"
    issued       \* number of commands received so far

vars == <<vetting, config, now, cmds, tasks, recovered, restarts,
          rooms, results, reactions, poll_ends, polls, ref_votes, fetch_log, issued>>

----------------------------------------------------------------------------
(* Bounds of the model *)

MaxTime == 1
MaxRestarts == 1
MaxCmds == 3
MaxPageLen == 2
MaxCount == 3
MaxThreshold == 3

(* Program constants and the configuration the lifecycle runs with *)

PageCap == 20
VotingTime == 1
MinYesVotes == 1
MaxNoVotes == 0

\* None / SQL NULL, as an id and as a time
NULL == <<"", "", 0>>
NoTime == -1

\* Ids the homeserver hands out are opaque and only compared: the k-th room,
\* poll or result message made for a candidate.
Id(kind, mxid, k) == <<kind, mxid, k>>
OtherEvent == Id("event", "", 1)
OtherPoll == Id("poll", "", 1)

Candidates == {"@a:x", "@b:x"}
\* The room members, by number; Senders are those whose events the pages of
\* a history hold.
Senders == 1..2
Tokens == {"", "s1"}

Choices == {"yes", "no", "blank"}

Max(a, b) == IF a >= b THEN a ELSE b

----------------------------------------------------------------------------
(* Room history events as _end_poll reads them (timer.py 113-138).        *)
(* content.present = FALSE : event.source has no "content"                 *)
(* content.has_rel = FALSE : no "m.relates_to" / "event_id" key            *)
(* content.has_ans = FALSE : no poll.response / "answers" key              *)

RESPONSE == "org.matrix.msc3381.poll.response"
POLL_START == "org.matrix.msc3381.poll.start"
MESSAGE == "m.room.message"

Content(present, has_rel, rel, has_ans, answers) ==
    [present |-> present, has_rel |-> has_rel, rel |-> rel,
     has_ans |-> has_ans, answers |-> answers]

NoContent == Content(FALSE, FALSE, NULL, FALSE, <<>>)

Event(event_id, type, sender, content) ==
    [event_id |-> event_id, type |-> type, sender |-> sender, content |-> content]

Response(sender, rel, answers) ==
    Event(OtherEvent, RESPONSE, sender, Content(TRUE, TRUE, rel, TRUE, answers))

\* The events a page may hold, for a closure of poll `poll`: the poll's start
\* event, an unrelated message, well-formed responses, a response to another
\* poll, and the malformed responses.
Events(poll) ==
    {Event(poll, POLL_START, 1, NoContent),
     Event(OtherEvent, MESSAGE, 1, NoContent)}
    \cup {Response(1, poll, <<a>>) : a \in Choices}
    \cup {Response(2, poll, <<"yes">>)}
    \cup {Response(1, OtherPoll, <<"yes">>),
          Response(1, poll, <<"maybe">>),
          Response(1, poll, <<>>),
          Event(OtherEvent, RESPONSE, 1, NoContent),
          Event(OtherEvent, RESPONSE, 1, Content(TRUE, FALSE, NULL, TRUE, <<"yes">>)),
          Event(OtherEvent, RESPONSE, 1, Content(TRUE, TRUE, poll, FALSE, <<>>))}

RECURSIVE SeqsUpTo(_, _)
SeqsUpTo(S, n) ==
    IF n = 0 THEN {<<>>}
    ELSE LET shorter == SeqsUpTo(S, n - 1)
         IN shorter \cup {Append(s, e) : s \in shorter, e \in S}

\* A RoomMessagesResponse (ok, with its chunk and its `end` cursor) or a
\* RoomMessagesError.
MessagesError == [ok |-> FALSE, chunk |-> <<>>, end |-> ""]
MessagesResponses(poll) ==
    {[ok |-> TRUE, chunk |-> c, end |-> e] :
        c \in SeqsUpTo(Events(poll), MaxPageLen), e \in Tokens}

----------------------------------------------------------------------------
(* The vote count of _end_poll (timer.py 83-135) *)

ZeroCount == [yes |-> 0, no |-> 0, blank |-> 0]

\* timer.py 130: `if event.sender in users_voted: continue`
AlreadyVoted(users_voted, sender) == sender \in users_voted

\* One event of a chunk, timer.py 115-135.  tally = [crashed, vote_count,
\* users_voted]; crashed: an exception other than KeyError left the loop.
CountEvent(tally, event, poll_event_id) ==
    IF event.type # RESPONSE THEN tally
    ELSE IF ~event.content.present
         THEN [tally EXCEPT !.crashed = TRUE]          \* None[...]: TypeError
    ELSE IF ~event.content.has_rel THEN tally           \* KeyError: pass
    ELSE IF event.content.rel # poll_event_id THEN tally
    ELSE IF ~event.content.has_ans THEN tally           \* KeyError: pass
    ELSE IF event.content.answers = <<>>
         THEN [tally EXCEPT !.crashed = TRUE]          \* [][0]: IndexError
    ELSE LET answer == event.content.answers[1]
         IN IF AlreadyVoted(tally.users_voted, event.sender) THEN tally
            ELSE IF answer \notin Choices
                 \* users_voted.add ran, vote_count[answer] raised KeyError
                 THEN [tally EXCEPT !.users_voted = @ \cup {event.sender}]
            ELSE [tally EXCEPT !.users_voted = @ \cup {event.sender},
                               !.vote_count[answer] = @ + 1]

\* `for event in message_resp.chunk`, timer.py 113-135
RECURSIVE CountVotes(_, _, _)
CountVotes(tally, chunk, poll_event_id) ==
    IF chunk = <<>> \/ tally.crashed THEN tally
    ELSE CountVotes(CountEvent(tally, Head(chunk), poll_event_id),
                    Tail(chunk), poll_event_id)

\* Variant: timer.py 138-139 without the `break`
FoundPollNever(chunk, poll_event_id) == FALSE

\* timer.py 138: `any([event.event_id == poll_event_id for event in chunk])`
FoundPoll(chunk, poll_event_id) ==
    \E k \in 1..Len(chunk) : chunk[k].event_id = poll_event_id

\* Variant: timer.py 148 with `<` for `<=`
DecideNoStrict(vote_count, cfg) ==
    /\ vote_count.yes >= cfg.min_yes_votes
    /\ vote_count.no < cfg.max_no_votes

\* timer.py 146-149
Decide(vote_count, cfg) ==
    /\ vote_count.yes >= cfg.min_yes_votes
    /\ vote_count.no <= cfg.max_no_votes

\* Variant: the loop without its cap (`while True`)
MorePagesAlways(i) == TRUE

\* timer.py 94: `for _ in range(0, 20)` goes on after pass number i
MorePages(i) == i < PageCap

----------------------------------------------------------------------------
(* The tasks made by wait_for_poll_end and the locals of _end_poll *)

\* The locals of a task at its await; start_time and wake are those of
\* _task (timer.py 50-53), the rest those of _end_poll (timer.py 57-184).
Task(pc, mxid, poll_event_id, start_time, wake) ==
    [pc |-> pc, mxid |-> mxid, poll_event_id |-> poll_event_id,
     start_time |-> start_time, wake |-> wake,
     vote_count |-> ZeroCount, users_voted |-> {}, i |-> 0,
     start_token |-> "", decision |-> FALSE, decision_event_id |-> NULL]

Add(bag, e) == bag (+) SetToBag({e})
Remove(bag, e) == bag (-) SetToBag({e})
Replace(bag, old, new) == Add(Remove(bag, old), new)

\* The tasks in flight for a candidate
TasksOf(mxid) == {r \in BagToSet(tasks) : r.mxid = mxid}
CountTasksOf(mxid) == BagCardinality([r \in TasksOf(mxid) |-> tasks[r]])

\* Variant: timer.py 51 with the time already gone by left out
TimeLeftFromNow(start_time, cfg, t) == cfg.voting_time

\* timer.py 51: time_left = start_time + self.config.voting_time - time.time()
TimeLeft(start_time, cfg, t) == start_time + cfg.voting_time - t

\* timer.py 52: asyncio.sleep(delay) returns at once for delay <= 0, and
\* after `delay` otherwise
SleepUntil(delay, t) == t + Max(delay, 0)

\* timer.py 49-55: wait_for_poll_end makes the task, which runs up to its
\* sleep as soon as the caller suspends
NewTask(mxid, poll_event_id, start_time, cfg, t) ==
    Task("sleep", mxid, poll_event_id, start_time,
         SleepUntil(TimeLeft(start_time, cfg, t), t))

\* Variant: _end_poll with the send of the poll.end event (timer.py 67-75) not
\* ahead of the scan
EndPollAtFetch(mxid, poll_event_id) ==
    Task("fetch", mxid, poll_event_id, NoTime, NoTime)

\* _end_poll(mxid, poll_event_id) at its first await: start_time and the
\* wake-up time are no locals of it.
EndPoll(mxid, poll_event_id) ==
    Task("send_end", mxid, poll_event_id, NoTime, NoTime)

\* timer.py 53, 57-71: the sleep is over, _end_poll is entered and sends the
\* poll.end event
EndPollStart(r) ==
    /\ r.pc = "sleep"
    /\ now >= r.wake
    /\ tasks' = Replace(tasks, r, EndPoll(r.mxid, r.poll_event_id))
    /\ UNCHANGED <<vetting, config, now, cmds, recovered, restarts, rooms,
                   results, reactions, poll_ends, polls, ref_votes, fetch_log, issued>>

\* Variant: timer.py 73-75 without the `return`
EndPollSendRespNoReturn(r) ==
    /\ r.pc = "send_end"
    /\ \E ok \in BOOLEAN :
         /\ poll_ends' = IF ok THEN poll_ends \cup {r.poll_event_id} ELSE poll_ends
         /\ tasks' = Replace(tasks, r, [r EXCEPT !.pc = "fetch",
                                                 !.vote_count = ZeroCount,
                                                 !.users_voted = {},
                                                 !.i = 0,
                                                 !.start_token = ""])
    /\ UNCHANGED <<vetting, config, now, cmds, recovered, restarts, rooms,
                   results, reactions, polls, ref_votes, fetch_log, issued>>

\* timer.py 67-93: the answer to the poll.end room_send
EndPollSendResp(r) ==
    /\ r.pc = "send_end"
    /\ \E ok \in BOOLEAN :
         IF ok
         THEN /\ poll_ends' = poll_ends \cup {r.poll_event_id}
              /\ tasks' = Replace(tasks, r, [r EXCEPT !.pc = "fetch",
                                                      !.vote_count = ZeroCount,
                                                      !.users_voted = {},
                                                      !.i = 0,
                                                      !.start_token = ""])
         ELSE /\ poll_ends' = poll_ends
              /\ tasks' = Remove(tasks, r)
    /\ UNCHANGED <<vetting, config, now, cmds, recovered, restarts, rooms,
                   results, reactions, polls, ref_votes, fetch_log, issued>>

\* Variant: timer.py 107 with `break` for `return`
FetchFailedBreak(task) == [task EXCEPT !.pc = "send_decision"]

\* timer.py 103-107: a RoomMessagesError -- the failure is reported, then
\* `return`
FetchFailed(task) == [task EXCEPT !.pc = "report"]

\* Variant: timer.py 94-139 giving up, as on a failed fetch, when the loop
\* runs out with the poll's start event not found
ScanStepAbortAtCap(task, resp, cfg) ==
    IF ~resp.ok
    THEN FetchFailed(task)
    ELSE LET tally == CountVotes([crashed |-> FALSE,
                                  vote_count |-> task.vote_count,
                                  users_voted |-> task.users_voted],
                                 resp.chunk, task.poll_event_id)
             counted == [task EXCEPT !.vote_count = tally.vote_count,
                                     !.users_voted = tally.users_voted,
                                     !.start_token = resp.end]
         IN IF tally.crashed
            THEN [counted EXCEPT !.pc = "crashed"]
            ELSE IF FoundPoll(resp.chunk, task.poll_event_id)
            THEN [counted EXCEPT !.i = @ + 1, !.pc = "send_decision",
                                 !.decision = Decide(tally.vote_count, cfg)]
            ELSE IF MorePages(task.i + 1)
            THEN [counted EXCEPT !.i = @ + 1]
            ELSE [counted EXCEPT !.i = @ + 1, !.pc = "report"]

\* timer.py 94-139: one pass of the loop, from the answer to room_messages to
\* the next room_messages (or out of the loop, up to the send of the result
\* message at 161).  pc "crashed": an exception left _end_poll.
ScanStep(task, resp, cfg) ==
    IF ~resp.ok
    THEN FetchFailed(task)
    ELSE LET tally == CountVotes([crashed |-> FALSE,
                                  vote_count |-> task.vote_count,
                                  users_voted |-> task.users_voted],
                                 resp.chunk, task.poll_event_id)
             counted == [task EXCEPT !.vote_count = tally.vote_count,
                                     !.users_voted = tally.users_voted,
                                     !.start_token = resp.end]
         IN IF tally.crashed
            THEN [counted EXCEPT !.pc = "crashed"]
            ELSE IF ~FoundPoll(resp.chunk, task.poll_event_id) /\ MorePages(task.i + 1)
            THEN [counted EXCEPT !.i = @ + 1]
            ELSE [counted EXCEPT !.i = @ + 1, !.pc = "send_decision",
                                 !.decision = Decide(tally.vote_count, cfg)]

\* The task after a pass: an exception ends it.
AfterPass(bag, r, r2) ==
    IF r2.pc = "crashed" THEN Remove(bag, r) ELSE Replace(bag, r, r2)

\* The first qualifying answer of each sender in scan order: a poll response
\* that targets the poll and carries one of the poll's answers.
Qualifies(event, poll_event_id) ==
    /\ event.type = RESPONSE
    /\ event.content.present
    /\ event.content.has_rel
    /\ event.content.rel = poll_event_id
    /\ event.content.has_ans
    /\ event.content.answers # <<>>
    /\ event.content.answers[1] \in Choices

RECURSIVE FirstVotes(_, _, _)
FirstVotes(ref, chunk, poll_event_id) ==
    IF chunk = <<>> THEN ref
    ELSE LET e == Head(chunk)
             ref2 == IF Qualifies(e, poll_event_id) /\ ref[e.sender] = "none"
                     THEN [ref EXCEPT ![e.sender] = e.content.answers[1]]
                     ELSE ref
         IN FirstVotes(ref2, Tail(chunk), poll_event_id)

NoVotes == [s \in Senders |-> "none"]

\* The page holds the poll's own poll.start event.
HoldsPollStart(chunk, poll_event_id) ==
    \E k \in 1..Len(chunk) :
        chunk[k].type = POLL_START /\ chunk[k].event_id = poll_event_id

\* timer.py 96-139: the answer to one room_messages call
FetchPage(r) ==
    /\ r.pc = "fetch"
    /\ \E resp \in MessagesResponses(r.poll_event_id) \cup {MessagesError} :
         LET after == ScanStep(r, resp, config)
         IN /\ tasks' = AfterPass(tasks, r, after)
            /\ ref_votes' = FirstVotes(ref_votes, resp.chunk, r.poll_event_id)
            /\ fetch_log' = Append(fetch_log,
                    IF ~resp.ok THEN "error"
                    ELSE IF after.pc = "crashed" THEN "raised"
                    ELSE IF HoldsPollStart(resp.chunk, r.poll_event_id) THEN "start"
                    ELSE "ok")
    /\ UNCHANGED <<vetting, config, now, cmds, recovered, restarts, rooms,
                   results, reactions, poll_ends, polls, issued>>

\* A room history as one closure meets it: the answer to its first
\* room_messages call, then the same answer to every later call.
Quiet == [ok |-> TRUE, chunk |-> <<>>, end |-> ""]
LifeResponses(poll) ==
    {MessagesError, Quiet,
     [ok |-> TRUE, end |-> "",
      chunk |-> <<Response(1, poll, <<"yes">>), Event(poll, POLL_START, 1, NoContent)>>],
     [ok |-> TRUE, end |-> "", chunk |-> <<Event(OtherEvent, RESPONSE, 1, NoContent)>>]}

Histories(poll) ==
    {[first |-> f, rest |-> r] :
        f \in LifeResponses(poll), r \in LifeResponses(poll)}

AnswerTo(history, call) ==
    IF call = 1 THEN history.first ELSE history.rest

\* timer.py 94-139: the whole loop over one history
RECURSIVE RunScan(_, _, _)
RunScan(task, history, cfg) ==
    IF task.pc # "fetch" THEN task
    ELSE CHOOSE out \in {RunScan(after, history, cfg) :
                            after \in {ScanStep(task, AnswerTo(history, task.i + 1), cfg)}} :
             TRUE

\* timer.py 94-139 as one step: the loop shares nothing with the other
\* coroutines (its locals and the transport's answers only), so its passes
\* need no interleaving with them.
Scan(r) ==
    /\ r.pc = "fetch"
    /\ \E history \in Histories(r.poll_event_id) :
         tasks' = AfterPass(tasks, r, RunScan(r, history, config))
    /\ UNCHANGED <<vetting, config, now, cmds, recovered, restarts, rooms,
                   results, reactions, poll_ends, polls, ref_votes, fetch_log, issued>>

\* timer.py 103-107: "Unable to gather votes." is sent, then return
ReportFetchFail(r) ==
    /\ r.pc = "report"
    /\ tasks' = Remove(tasks, r)
    /\ UNCHANGED <<vetting, config, now, cmds, recovered, restarts, rooms,
                   results, reactions, poll_ends, polls, ref_votes, fetch_log, issued>>

\* Variant: timer.py 178-184 without `WHERE mxid = ?`
ClosePollAllRows(table, mxid, decision_event_id) ==
    {[row EXCEPT !.vote_ended = TRUE, !.decision_event_id = decision_event_id] :
        row \in table}

\* Variant: timer.py 178-184 storing the decision id only
ClosePollNoEnded(table, mxid, decision_event_id) ==
    {IF row.mxid = mxid
     THEN [row EXCEPT !.decision_event_id = decision_event_id]
     ELSE row : row \in table}

\* timer.py 178-184: UPDATE vetting SET vote_ended = 1, decision_event_id = ?
\* WHERE mxid = ?
ClosePoll(table, mxid, decision_event_id) ==
    {IF row.mxid = mxid
     THEN [row EXCEPT !.vote_ended = TRUE, !.decision_event_id = decision_event_id]
     ELSE row : row \in table}

\* timer.py 169: `if decision:` -- the reaction is sent
Reacts(decision) == decision

\* The id of the next result message about a candidate
NewResultId(mxid) ==
    Id("result", mxid, Cardinality({x \in results : x.mxid = mxid}) + 1)

\* Variant: timer.py 165-167 without the `return`
SendDecisionRespNoReturn(r) ==
    /\ r.pc = "send_decision"
    /\ \E ok \in BOOLEAN :
         LET id == IF ok THEN NewResultId(r.mxid) ELSE NULL
         IN /\ results' = IF ok
                          THEN results \cup
                               {[event_id |-> id, mxid |-> r.mxid, poll |-> r.poll_event_id,
                                 counts |-> r.vote_count, accept |-> r.decision]}
                          ELSE results
            /\ IF Reacts(r.decision)
               THEN /\ tasks' = Replace(tasks, r,
                           [r EXCEPT !.pc = "react", !.decision_event_id = id])
                    /\ vetting' = vetting
               ELSE /\ tasks' = Remove(tasks, r)
                    /\ vetting' = ClosePoll(vetting, r.mxid, id)
    /\ UNCHANGED <<config, now, cmds, recovered, restarts, rooms, reactions,
                   poll_ends, polls, ref_votes, fetch_log, issued>>

\* timer.py 161-184: the answer to the send of the result message
SendDecisionResp(r) ==
    /\ r.pc = "send_decision"
    /\ \E ok \in BOOLEAN :
         IF ~ok
         THEN /\ tasks' = Remove(tasks, r)
              /\ UNCHANGED <<vetting, results>>
         ELSE LET id == NewResultId(r.mxid)
              IN /\ results' = results \cup
                       {[event_id |-> id, mxid |-> r.mxid, poll |-> r.poll_event_id,
                         counts |-> r.vote_count, accept |-> r.decision]}
                 /\ IF Reacts(r.decision)
                    THEN /\ tasks' = Replace(tasks, r,
                                [r EXCEPT !.pc = "react", !.decision_event_id = id])
                         /\ vetting' = vetting
                    ELSE /\ tasks' = Remove(tasks, r)
                         /\ vetting' = ClosePoll(vetting, r.mxid, id)
    /\ UNCHANGED <<config, now, cmds, recovered, restarts, rooms, reactions,
                   poll_ends, polls, ref_votes, fetch_log, issued>>

\* timer.py 170-184: the answer to react_to_event (not looked at), then the
\* UPDATE
React(r) ==
    /\ r.pc = "react"
    /\ \E ok \in BOOLEAN :
         reactions' = IF ok
                      THEN reactions \cup {[event_id |-> r.decision_event_id,
                                            key |-> "confirm"]}
                      ELSE reactions
    /\ tasks' = Remove(tasks, r)
    /\ vetting' = ClosePoll(vetting, r.mxid, r.decision_event_id)
    /\ UNCHANGED <<config, now, cmds, recovered, restarts, rooms, results,
                   poll_ends, polls, ref_votes, fetch_log, issued>>

----------------------------------------------------------------------------
(* The `vetting` table and the commands *)

Row(mxid, room_id) ==
    [mxid |-> mxid, room_id |-> room_id, poll_event_id |-> NULL,
     voting_start_time |-> NoTime, vote_ended |-> FALSE, decision_event_id |-> NULL]

\* SELECT ... FROM vetting WHERE mxid = ?
RowsOf(table, mxid) == {row \in table : row.mxid = mxid}

\* The store's create: refuses a candidate that has a row (DuplicateCase).
CanCreate(table, mxid) == RowsOf(table, mxid) = {}

\* Variant: bot_commands.py 301-304 storing the poll id only
StartPollNoTime(table, mxid, poll_event_id, voting_start_time) ==
    {IF row.mxid = mxid
     THEN [row EXCEPT !.poll_event_id = poll_event_id]
     ELSE row : row \in table}

\* bot_commands.py 301-304: UPDATE vetting SET poll_event_id = ?,
\* voting_start_time = ? WHERE mxid = ?
StartPoll(table, mxid, poll_event_id, voting_start_time) ==
    {IF row.mxid = mxid
     THEN [row EXCEPT !.poll_event_id = poll_event_id,
                      !.voting_start_time = voting_start_time]
     ELSE row : row \in table}

\* The locals of a command at its await: pc "reply" is the send_text_to_room
\* of a refusal or a failure, after which the command returns.
Cmd(pc, kind, mxid, text) == [pc |-> pc, kind |-> kind, mxid |-> mxid, text |-> text]

Reply(kind, text) == Cmd("reply", kind, "", text)

\* What a command may carry as its argument: a user id, or a word that is no
\* user id.
Args == Candidates \cup {"nobody"}

\* bot_commands.py 341-351, on Args
ValidateUserId(user_id) == user_id \in Candidates

\* bot_commands.py 137: `if row is not None` -- the command is refused
CaseExists(table, mxid) == RowsOf(table, mxid) # {}

\* bot_commands.py 111-189: `start`, up to the room_create call
StartVetting ==
    /\ recovered
    /\ issued < MaxCmds
    /\ issued' = issued + 1
    /\ \E arg \in Args :
         cmds' = Add(cmds,
            IF ~ValidateUserId(arg) THEN Reply("start", "invalid user id")
            ELSE IF CaseExists(vetting, arg) THEN Reply("start", "room exists")
            ELSE Cmd("room_create", "start", arg, ""))
    /\ UNCHANGED <<vetting, config, now, tasks, recovered, restarts, rooms,
                   results, reactions, poll_ends, polls, ref_votes, fetch_log>>

\* The id of the next room made for a candidate
NewRoomId(mxid) ==
    Id("room", mxid, Cardinality({x \in rooms : x.mxid = mxid}) + 1)

\* bot_commands.py 189-229: the answer to room_create, then the INSERT and
\* what follows it (the space entry, the link).  A refused INSERT raises out
\* of the command.
RoomCreateResp(c) ==
    /\ c.pc = "room_create"
    /\ \E ok \in BOOLEAN :
         IF ~ok
         THEN /\ cmds' = Remove(cmds, c)     \* 195-199: the failure is sent as text
              /\ UNCHANGED <<vetting, rooms>>
         ELSE LET id == NewRoomId(c.mxid)
              IN /\ rooms' = rooms \cup {[room_id |-> id, mxid |-> c.mxid]}
                 /\ vetting' = IF CanCreate(vetting, c.mxid)
                               THEN vetting \cup {Row(c.mxid, id)}
                               ELSE vetting
                 /\ cmds' = Remove(cmds, c)
    /\ UNCHANGED <<config, now, tasks, recovered, restarts, results, reactions,
                   poll_ends, polls, ref_votes, fetch_log, issued>>

\* bot_commands.py 254: `if row[1] is not None` -- a poll was started already
PollStarted(row) == row.poll_event_id # NULL

\* Variant: bot_commands.py 250-253 without the `row is None` refusal
StartVoteNoRowCheck ==
    /\ recovered
    /\ issued < MaxCmds
    /\ issued' = issued + 1
    /\ \E arg \in Args :
         cmds' = Add(cmds,
            IF RowsOf(vetting, arg) # {}
               /\ PollStarted(CHOOSE x \in RowsOf(vetting, arg) : TRUE)
            THEN Reply("vote", "poll exists")
            ELSE Cmd("poll_send", "vote", arg, ""))
    /\ UNCHANGED <<vetting, config, now, tasks, recovered, restarts, rooms,
                   results, reactions, poll_ends, polls, ref_votes, fetch_log>>

\* bot_commands.py 231-291: `vote`, up to the room_send of the poll
StartVote ==
    /\ recovered
    /\ issued < MaxCmds
    /\ issued' = issued + 1
    /\ \E arg \in Args :
         cmds' = Add(cmds,
            IF RowsOf(vetting, arg) = {} THEN Reply("vote", "not vetted")
            ELSE LET row == CHOOSE x \in RowsOf(vetting, arg) : TRUE
                 IN IF PollStarted(row) THEN Reply("vote", "poll exists")
                    ELSE Cmd("poll_send", "vote", arg, ""))
    /\ UNCHANGED <<vetting, config, now, tasks, recovered, restarts, rooms,
                   results, reactions, poll_ends, polls, ref_votes, fetch_log>>

\* The id of the next poll started for a candidate
NewPollId(mxid) ==
    Id("poll", mxid, Cardinality({x \in polls : x.mxid = mxid}) + 1)

\* bot_commands.py 287-331: the answer to the room_send of the poll, the
\* UPDATE, wait_for_poll_end (timer.py 49-55), which makes the task and
\* returns without a suspension, and what follows it (the link)
PollSendResp(c) ==
    /\ c.pc = "poll_send"
    /\ \E ok \in BOOLEAN :
         IF ~ok
         THEN /\ cmds' = Remove(cmds, c)     \* 293-297: the failure is sent as text
              /\ UNCHANGED <<vetting, polls, tasks>>
         ELSE LET id == NewPollId(c.mxid)
              IN /\ polls' = polls \cup {[event_id |-> id, mxid |-> c.mxid]}
                 /\ vetting' = StartPoll(vetting, c.mxid, id, now)
                 /\ tasks' = Add(tasks, NewTask(c.mxid, id, now, config, now))
                 /\ cmds' = Remove(cmds, c)
    /\ UNCHANGED <<config, now, recovered, restarts, rooms, results, reactions,
                   poll_ends, ref_votes, fetch_log, issued>>

\* send_text_to_room of a refusal or a failure, then return
CmdReply(c) ==
    /\ c.pc = "reply"
    /\ cmds' = Remove(cmds, c)
    /\ UNCHANGED <<vetting, config, now, tasks, recovered, restarts, rooms,
                   results, reactions, poll_ends, polls, ref_votes, fetch_log, issued>>

----------------------------------------------------------------------------
(* The process: start, recovery, exit *)

\* Variant: timer.py 42 without `if row[3]: continue`
PendingIgnoringEnded(row) == row.voting_start_time # NoTime

\* timer.py 36 and 42: WHERE voting_start_time IS NOT NULL, `if row[3]: continue`
Pending(row) == row.voting_start_time # NoTime /\ ~row.vote_ended

\* timer.py 41-47: one wait_for_poll_end per pending row
RECURSIVE StartTimers(_, _, _, _)
StartTimers(bag, rows, cfg, t) ==
    IF rows = {} THEN bag
    ELSE LET row == CHOOSE x \in rows : TRUE
         IN StartTimers(Add(bag, NewTask(row.mxid, row.poll_event_id,
                                         row.voting_start_time, cfg, t)),
                        rows \ {row}, cfg, t)

\* timer.py 31-47, called once when the process starts
StartAllTimers ==
    /\ ~recovered
    /\ tasks' = StartTimers(tasks, {row \in vetting : Pending(row)}, config, now)
    /\ recovered' = TRUE
    /\ UNCHANGED <<vetting, config, now, cmds, restarts, rooms, results,
                   reactions, poll_ends, polls, ref_votes, fetch_log, issued>>

\* The process exits and is started again: the coroutines and the tasks are
\* gone, the table and the room are not.
Restart ==
    /\ restarts < MaxRestarts
    /\ restarts' = restarts + 1
    /\ recovered' = FALSE
    /\ tasks' = EmptyBag
    /\ cmds' = EmptyBag
    /\ UNCHANGED <<vetting, config, now, rooms, results, reactions, poll_ends,
                   polls, ref_votes, fetch_log, issued>>

Tick ==
    /\ now < MaxTime
    /\ now' = now + 1
    /\ UNCHANGED <<vetting, config, tasks, cmds, recovered, restarts, rooms,
                   results, reactions, poll_ends, polls, ref_votes, fetch_log, issued>>

----------------------------------------------------------------------------
(* The lifecycle: commands, timers, closures, restarts *)

Init ==
    /\ vetting = {}
    /\ config = [voting_time |-> VotingTime, min_yes_votes |-> MinYesVotes,
                 max_no_votes |-> MaxNoVotes]
    /\ now = 0
    /\ cmds = EmptyBag
    /\ tasks = EmptyBag
    /\ recovered = FALSE
    /\ restarts = 0
    /\ rooms = {}
    /\ results = {}
    /\ reactions = {}
    /\ poll_ends = {}
    /\ polls = {}
    /\ ref_votes = NoVotes
    /\ fetch_log = <<>>
    /\ issued = 0

Next ==
    \/ StartAllTimers
    \/ Restart
    \/ Tick
    \/ StartVetting
    \/ StartVote
    \/ \E c \in BagToSet(cmds) : RoomCreateResp(c)
    \/ \E c \in BagToSet(cmds) : PollSendResp(c)
    \/ \E c \in BagToSet(cmds) : CmdReply(c)
    \/ \E r \in BagToSet(tasks) : EndPollStart(r)
    \/ \E r \in BagToSet(tasks) : EndPollSendResp(r)
    \/ \E r \in BagToSet(tasks) : Scan(r)
    \/ \E r \in BagToSet(tasks) : ReportFetchFail(r)
    \/ \E r \in BagToSet(tasks) : SendDecisionResp(r)
    \/ \E r \in BagToSet(tasks) : React(r)

Spec == Init /\ [][Next]_vars

----------------------------------------------------------------------------
(* Recovery: the process starts on a stored table *)

StoredRows(mxid, t) ==
    {Row(mxid, Id("room", mxid, 1))}
    \cup {[Row(mxid, Id("room", mxid, 1)) EXCEPT
              !.poll_event_id = Id("poll", mxid, 1),
              !.voting_start_time = start,
              !.vote_ended = ended,
              !.decision_event_id = IF ended THEN Id("result", mxid, 1) ELSE NULL] :
          start \in 0..t, ended \in BOOLEAN}

AllStoredRows(t) == UNION {StoredRows(m, t) : m \in Candidates}

\* The tables a process may find at its start, at time t: for each candidate
\* no case, a case without a poll, a case with an open poll, or a closed case.
StoredTables(t) ==
    UNION {{{f[m] : m \in S} :
               f \in {g \in [S -> AllStoredRows(t)] : \A m \in S : g[m].mxid = m}} :
           S \in SUBSET Candidates}

\* What the room holds of a stored table: the rooms, the polls, and for a
\* closed case its poll.end and its result message (a rejection).
RecoverInit ==
    \E t \in 0..MaxTime : \E table \in StoredTables(t) :
        /\ now = t
        /\ vetting = table
        /\ rooms = {[room_id |-> row.room_id, mxid |-> row.mxid] : row \in table}
        /\ polls = {[event_id |-> row.poll_event_id, mxid |-> row.mxid] :
                        row \in {x \in table : PollStarted(x)}}
        /\ poll_ends = {row.poll_event_id : row \in {x \in table : x.vote_ended}}
        /\ results = {[event_id |-> row.decision_event_id, mxid |-> row.mxid,
                       poll |-> row.poll_event_id, counts |-> ZeroCount,
                       accept |-> FALSE] : row \in {x \in table : x.vote_ended}}
        /\ reactions = {}
        /\ \E voting_time \in 0..VotingTime :
             config = [voting_time |-> voting_time, min_yes_votes |-> MinYesVotes,
                       max_no_votes |-> MaxNoVotes]
        /\ cmds = EmptyBag
        /\ tasks = EmptyBag
        /\ recovered = FALSE
        /\ restarts = 0
        /\ ref_votes = NoVotes
        /\ fetch_log = <<>>
        /\ issued = 0

RecoverNext ==
    \/ StartAllTimers
    \/ Restart
    \/ Tick
    \/ \E r \in BagToSet(tasks) : EndPollStart(r)
    \/ \E r \in BagToSet(tasks) : EndPollSendResp(r)
    \/ \E r \in BagToSet(tasks) : Scan(r)
    \/ \E r \in BagToSet(tasks) : ReportFetchFail(r)
    \/ \E r \in BagToSet(tasks) : SendDecisionResp(r)
    \/ \E r \in BagToSet(tasks) : React(r)

RecoverSpec == RecoverInit /\ [][RecoverNext]_vars

----------------------------------------------------------------------------
(* One closure, pass by pass *)

ScanPoll == Id("poll", "@a:x", 1)

\* A case with an open poll whose deadline has come: _end_poll is entered.
ScanInit ==
    /\ vetting = {[Row("@a:x", Id("room", "@a:x", 1)) EXCEPT
                      !.poll_event_id = ScanPoll, !.voting_start_time = 0]}
    /\ config = [voting_time |-> VotingTime, min_yes_votes |-> MinYesVotes,
                 max_no_votes |-> MaxNoVotes]
    /\ now = VotingTime
    /\ cmds = EmptyBag
    /\ tasks = SetToBag({EndPoll("@a:x", ScanPoll)})
    /\ recovered = TRUE
    /\ restarts = 0
    /\ rooms = {[room_id |-> Id("room", "@a:x", 1), mxid |-> "@a:x"]}
    /\ results = {}
    /\ reactions = {}
    /\ poll_ends = {}
    /\ polls = {[event_id |-> ScanPoll, mxid |-> "@a:x"]}
    /\ ref_votes = NoVotes
    /\ fetch_log = <<>>
    /\ issued = 0

ScanNext ==
    \/ \E r \in BagToSet(tasks) : EndPollSendResp(r)
    \/ \E r \in BagToSet(tasks) : FetchPage(r)
    \/ \E r \in BagToSet(tasks) : ReportFetchFail(r)
    \/ \E r \in BagToSet(tasks) : SendDecisionResp(r)
    \/ \E r \in BagToSet(tasks) : React(r)

ScanSpec == ScanInit /\ [][ScanNext]_vars

----------------------------------------------------------------------------
(* The decision: a closure on the last pass of its loop, with any counts so *)
(* far and any thresholds                                                   *)

DecisionInit ==
    /\ vetting = {[Row("@a:x", Id("room", "@a:x", 1)) EXCEPT
                      !.poll_event_id = ScanPoll, !.voting_start_time = 0]}
    /\ \E min_yes \in 0..MaxThreshold, max_no \in 0..MaxThreshold :
         config = [voting_time |-> VotingTime, min_yes_votes |-> min_yes,
                   max_no_votes |-> max_no]
    /\ now = VotingTime
    /\ cmds = EmptyBag
    /\ \E yes \in 0..MaxCount, no \in 0..MaxCount, blank \in 0..MaxCount :
         tasks = SetToBag({[EndPoll("@a:x", ScanPoll) EXCEPT
                               !.pc = "fetch", !.i = PageCap - 1,
                               !.vote_count = [yes |-> yes, no |-> no, blank |-> blank],
                               !.users_voted = 1..(yes + no + blank)]})
    /\ recovered = TRUE
    /\ restarts = 0
    /\ rooms = {[room_id |-> Id("room", "@a:x", 1), mxid |-> "@a:x"]}
    /\ results = {}
    /\ reactions = {}
    /\ poll_ends = {ScanPoll}
    /\ polls = {[event_id |-> ScanPoll, mxid |-> "@a:x"]}
    /\ ref_votes = NoVotes
    /\ fetch_log = <<>>
    /\ issued = 0

DecisionNext ==
    \/ \E r \in BagToSet(tasks) : Scan(r)
    \/ \E r \in BagToSet(tasks) : ReportFetchFail(r)
    \/ \E r \in BagToSet(tasks) : SendDecisionResp(r)
    \/ \E r \in BagToSet(tasks) : React(r)

DecisionSpec == DecisionInit /\ [][DecisionNext]_vars

----------------------------------------------------------------------------
(* Properties of the lifecycle (Spec) *)

\* C1: every case with an open poll has exactly one close-poll action; under
\* no interleaving of commands, timers and restarts are there two closures
\* for the same candidate.
C1_OneClosurePerCase ==
    \A mxid \in Candidates : CountTasksOf(mxid) <= 1

\* C10: a candidate has at most one case, and a `start` for a candidate who
\* has a case creates no room and changes no stored state, however the
\* starts for that candidate interleave.
C10_OneCaseNoSecondRoom ==
    /\ [](\A mxid \in Candidates : Cardinality(RowsOf(vetting, mxid)) <= 1)
    /\ [][\A mxid \in Candidates :
            CaseExists(vetting, mxid) =>
                {x \in rooms' : x.mxid = mxid} = {x \in rooms : x.mxid = mxid}]_vars

----------------------------------------------------------------------------
(* Properties of recovery (RecoverSpec) *)

\* C2: after start_all_timers there is exactly one closure task for every
\* case whose poll is started and not ended, made from that case's poll id
\* and start time, and none for any other case.
C2_RecoveryOnePerPending ==
    [][(~recovered /\ recovered') =>
          /\ \A row \in vetting :
                LET mine == {r \in BagToSet(tasks') : r.mxid = row.mxid}
                IN IF row.poll_event_id # NULL /\ ~row.vote_ended
                   THEN \E r \in mine :
                            /\ mine = {r}
                            /\ tasks'[r] = 1
                            /\ r.pc = "sleep"
                            /\ r.poll_event_id = row.poll_event_id
                            /\ r.start_time = row.voting_start_time
                   ELSE mine = {}
          /\ \A r \in BagToSet(tasks') : \E row \in vetting : r.mxid = row.mxid]_vars

\* Recovery has made a task for an open poll and none for a case that is
\* closed or has no poll.
C2_Witness ==
    /\ recovered
    /\ \E row \in vetting :
          /\ row.poll_event_id # NULL /\ ~row.vote_ended
          /\ \E r \in BagToSet(tasks) : r.mxid = row.mxid /\ r.pc = "sleep"
    /\ \E row \in vetting : row.vote_ended /\ TasksOf(row.mxid) = {}

\* C3: a closure whose deadline is in the past, also by more than nothing
\* (a negative remaining duration), may fire at once and is not dropped; no
\* closure fires before start_time + voting_time.
C3_Deadline ==
    /\ [](\A r \in BagToSet(tasks) :
             (r.pc = "sleep" /\ r.start_time + config.voting_time <= now)
                 => ENABLED EndPollStart(r))
    /\ [][\A r \in BagToSet(tasks) :
             (r.pc = "sleep" /\ tasks' = Replace(tasks, r, EndPoll(r.mxid, r.poll_event_id)))
                 => now >= r.start_time + config.voting_time]_vars

\* A task was scheduled when its deadline had passed: its remaining duration
\* was negative, and it is due.
C3_Witness ==
    \E r \in BagToSet(tasks) :
        /\ r.pc = "sleep"
        /\ r.start_time + config.voting_time < r.wake
        /\ r.wake <= now

----------------------------------------------------------------------------
(* Properties of one closure (ScanSpec) *)

C5_ScanBounded == Len(fetch_log) <= 20

\* The poll never showed up: the scan stopped at its 20th page.
C5_Witness ==
    /\ Len(fetch_log) = 20
    /\ \E r \in BagToSet(tasks) : r.pc = "send_decision" /\ r.i = 20

\* C7: once a page fetch has failed, on the first or a later page, the
\* closure does nothing but report and return: no result message, no
\* reaction, the case not ended and its poll id as before.
C7_FetchFailureAborts ==
    (\E k \in 1..Len(fetch_log) : fetch_log[k] = "error") =>
        /\ results = {}
        /\ reactions = {}
        /\ \A row \in vetting :
              /\ ~row.vote_ended
              /\ row.poll_event_id = ScanPoll
              /\ row.decision_event_id = NULL
        /\ \A r \in BagToSet(tasks) : r.pc = "report"

\* A later page failed and the closure has returned.
C7_Witness ==
    /\ Len(fetch_log) >= 2
    /\ fetch_log[Len(fetch_log)] = "error"
    /\ tasks = EmptyBag

\* C8: a step of a closure at the send of its result that publishes no result
\* (the send failed) leaves the case as it was -- not ended, poll id set, no
\* decision -- sends no reaction, and leaves no coroutine that would try again.
C8_PublishFailureLeavesCase ==
    [][\A r \in BagToSet(tasks) :
          (r.pc = "send_decision" /\ results' = results) =>
              /\ vetting' = vetting
              /\ reactions' = reactions
              /\ tasks' = EmptyBag
              /\ \A row \in vetting' :
                    /\ ~row.vote_ended
                    /\ row.poll_event_id = r.poll_event_id
                    /\ row.decision_event_id = NULL]_vars

\* The scan went through, the send of the result failed, the closure is over.
C8_Witness ==
    /\ fetch_log # <<>>
    /\ \A k \in 1..Len(fetch_log) : fetch_log[k] \in {"ok", "start"}
    /\ tasks = EmptyBag
    /\ results = {}
    /\ \A row \in vetting : ~row.vote_ended /\ row.poll_event_id = ScanPoll

\* C9: a malformed response is skipped: no pass of the scan ends in an
\* exception, and the senders held as having voted are those with a counted
\* response, so that a malformed event changes neither the counts nor which
\* later events count.
C9_MalformedSkipped ==
    /\ \A k \in 1..Len(fetch_log) : fetch_log[k] # "raised"
    /\ \A r \in BagToSet(tasks) :
          r.pc \in {"fetch", "send_decision"} =>
              r.users_voted = {s \in Senders : ref_votes[s] # "none"}

----------------------------------------------------------------------------
(* Properties of the decision (DecisionSpec) *)

\* C6: a published result accepts exactly if its yes count is at least
\* min_yes_votes and its no count at most max_no_votes; nothing else (the
\* blank count, the order of the events) has a say.
C6_DecisionRule ==
    \A m \in results :
        m.accept <=> (m.counts.yes >= config.min_yes_votes
                      /\ m.counts.no <= config.max_no_votes)

\* Thresholds (3, 1): yes = 3 and no = 1 is accepted, with blanks cast.
C6_Witness ==
    /\ config.min_yes_votes = 3
    /\ config.max_no_votes = 1
    /\ \E m \in results :
          m.counts.yes = 3 /\ m.counts.no = 1 /\ m.counts.blank > 0 /\ m.accept

----------------------------------------------------------------------------
(* Properties of the stored cases (Spec) *)

\* C11: in every state, every case has its poll id and its voting start time
\* both unset or both set.
C11_PollIdWithStartTime ==
    \A row \in vetting :
        (row.poll_event_id = NULL) <=> (row.voting_start_time = NoTime)

\* A poll was started for a case while another case has none yet.
C11_Witness ==
    /\ \E row \in vetting : row.poll_event_id # NULL /\ row.voting_start_time # NoTime
    /\ \E row \in vetting : row.poll_event_id = NULL /\ row.voting_start_time = NoTime

\* C12: in every state, a case with a decision id is ended, and its decision
\* id is the id of a result message that was published for its candidate.
C12_DecisionIdIsPublishedResult ==
    \A row \in vetting :
        row.decision_event_id # NULL =>
            /\ row.vote_ended
            /\ \E m \in results :
                  m.event_id = row.decision_event_id /\ m.mxid = row.mxid

\* A closure of this run has stored the id of the result it published.
C12_Witness ==
    \E row \in vetting :
        /\ row.decision_event_id # NULL
        /\ row.vote_ended
        /\ \E m \in results : m.event_id = row.decision_event_id /\ m.poll = row.poll_event_id

\* C13: a `vote` for a candidate without a case is refused and changes
\* nothing: no such command gets as far as sending a poll, no poll is
\* published and no closure scheduled for a candidate without a case, and
\* every case is one that a `start` made together with its room.
C13_VoteNeedsCase ==
    /\ \A c \in BagToSet(cmds) : c.pc = "poll_send" => CaseExists(vetting, c.mxid)
    /\ \A p \in polls : CaseExists(vetting, p.mxid)
    /\ \A r \in BagToSet(tasks) : CaseExists(vetting, r.mxid)
    /\ \A row \in vetting :
          [room_id |-> row.room_id, mxid |-> row.mxid] \in rooms

\* A `vote` was refused for want of a case; nothing is stored, published or
\* scheduled for a candidate without a case.
C13_Witness ==
    /\ Reply("vote", "not vetted") \in BagToSet(cmds)
    /\ \E mxid \in Candidates :
          /\ ~CaseExists(vetting, mxid)
          /\ TasksOf(mxid) = {}
          /\ \A p \in polls : p.mxid # mxid

----------------------------------------------------------------------------
(* Recovery with a transport whose calls succeed, run to its end *)

\* The answers of a transport that does not fail: timer.py 73, 103 and 165
\* take their success branch.
EndPollSendOk(r) == EndPollSendResp(r) /\ tasks' # Remove(tasks, r)
ScanOk(r) ==
    /\ r.pc = "fetch"
    /\ \E history \in {h \in Histories(r.poll_event_id) : h.first.ok /\ h.rest.ok} :
         tasks' = AfterPass(tasks, r, RunScan(r, history, config))
    /\ UNCHANGED <<vetting, config, now, cmds, recovered, restarts, rooms,
                   results, reactions, poll_ends, polls, ref_votes, fetch_log, issued>>
SendDecisionOk(r) == SendDecisionResp(r) /\ results' # results
ReactOk(r) == React(r) /\ reactions' # reactions

\* Time goes on until every sleep of asyncio.sleep (timer.py 52) is over.
LiveTick ==
    /\ now < MaxTime + VotingTime
    /\ now' = now + 1
    /\ UNCHANGED <<vetting, config, tasks, cmds, recovered, restarts, rooms,
                   results, reactions, poll_ends, polls, ref_votes, fetch_log, issued>>

LiveNext ==
    \/ StartAllTimers
    \/ Restart
    \/ LiveTick
    \/ \E r \in BagToSet(tasks) : EndPollStart(r)
    \/ \E r \in BagToSet(tasks) : EndPollSendOk(r)
    \/ \E r \in BagToSet(tasks) : ScanOk(r)
    \/ \E r \in BagToSet(tasks) : SendDecisionOk(r)
    \/ \E r \in BagToSet(tasks) : ReactOk(r)

\* The event loop runs what is runnable: the process starts, time passes, a
\* task whose await is answered goes on.
LiveSpec == RecoverInit /\ [][LiveNext]_vars /\ WF_vars(LiveNext)

\* C14: whenever the process has exited before a closure wrote vote_ended,
\* recovery runs the closure again, and with a transport whose calls succeed
\* every case with an open poll is ended in the end.
C14_OpenCaseEnds ==
    \A mxid \in Candidates :
        (\E row \in vetting : row.mxid = mxid /\ row.poll_event_id # NULL)
            ~> (\E row \in vetting : row.mxid = mxid /\ row.vote_ended)

----------------------------------------------------------------------------
(* Properties of one closure, continued (ScanSpec) *)

\* C15: whenever the publish of the poll.end marker or of the result message
\* fails, the closure goes on to send a plain-text failure report to the room
\* before it ends: it never ends at the failed send itself.
C15_PublishFailureReported ==
    [][\A r \in BagToSet(tasks) :
          /\ r.pc = "send_end" =>
                \E r2 \in BagToSet(tasks') : r2.pc \in {"fetch", "report"}
          /\ (r.pc = "send_decision" /\ results' = results) =>
                \E r2 \in BagToSet(tasks') : r2.pc = "report"]_vars

----------------------------------------------------------------------------
(* Properties of the lifecycle, continued (Spec) *)

\* C16: once the poll id of a case is set, no step overwrites it or its
\* voting start time, and no further poll is published for its candidate,
\* however the `vote` commands for that candidate interleave.
C16_PollIdNeverOverwritten ==
    [][\A row \in vetting :
          row.poll_event_id # NULL =>
              /\ \A row2 \in RowsOf(vetting', row.mxid) :
                    /\ row2.poll_event_id = row.poll_event_id
                    /\ row2.voting_start_time = row.voting_start_time
              /\ {p \in polls' : p.mxid = row.mxid} = {p \in polls : p.mxid = row.mxid}]_vars

\* C17: the steps of a closure come in one order: the poll.end marker for the
\* poll is published before the first page is fetched, the result message only
\* once the scan is over, and the store update last, after the result message.
C17_ClosureOrder ==
    /\ (fetch_log # <<>> \/ \E r \in BagToSet(tasks) : r.pc = "fetch")
          => ScanPoll \in poll_ends
    /\ results # {} =>
          /\ fetch_log # <<>>
          /\ fetch_log[Len(fetch_log)] \in {"ok", "start"}
          /\ \A r \in BagToSet(tasks) : r.pc = "react"
    /\ \A row \in vetting :
          row.vote_ended =>
              /\ tasks = EmptyBag
              /\ \E m \in results :
                    m.event_id = row.decision_event_id /\ m.poll = ScanPoll

\* A closure went through all of its steps, scanning several pages.
C17_Witness ==
    /\ Len(fetch_log) >= 2
    /\ ScanPoll \in poll_ends
    /\ reactions # {}
    /\ \E row \in vetting : row.vote_ended /\ row.decision_event_id # NULL

\* C18: the confirmation reaction goes with the accept decision and no other:
\* every reaction targets a published result that accepts, a result that
\* rejects has no reaction, and once a closure has closed its case on an
\* accepting result that result has its reaction.
C18_ReactionIffAccept ==
    /\ \A x \in reactions :
          \E m \in results : m.event_id = x.event_id /\ m.accept
    /\ \A m \in results :
          /\ ~m.accept => \A x \in reactions : x.event_id # m.event_id
          /\ (m.accept /\ \E row \in vetting :
                             row.vote_ended /\ row.decision_event_id = m.event_id)
                => [event_id |-> m.event_id, key |-> "confirm"] \in reactions

\* C19: a page that holds the poll's start event is the last page fetched:
\* the scan goes through that page, its responses included, and leaves the
\* loop, so that nothing of an older page is ever counted.
C19_StopAtPollStart ==
    /\ \A k \in 1..Len(fetch_log) : fetch_log[k] = "start" => k = Len(fetch_log)
    /\ (fetch_log # <<>> /\ fetch_log[Len(fetch_log)] = "start") =>
          \A r \in BagToSet(tasks) :
              /\ r.pc \in {"send_decision", "react"}
              /\ r.i = Len(fetch_log)
              /\ {s \in Senders : ref_votes[s] # "none"} \subseteq r.users_voted

\* The second page held the poll's start event and a vote: the vote is
\* counted and the scan is over, well before its cap.
C19_Witness ==
    /\ Len(fetch_log) = 2
    /\ fetch_log[2] = "start"
    /\ \E r \in BagToSet(tasks) :
          r.pc = "send_decision" /\ r.i = 2 /\ r.vote_count.yes + r.vote_count.no >= 1

\* C20: when the 20th page is fetched with no page having failed and the
\* poll's start event not found, the closure does not give up: it goes on to
\* publish the decision its counts so far give, and a result published by it
\* closes the case, with vote_ended and the decision id stored.
C20_CapStillDecides ==
    /\ [][(Len(fetch_log) = 19 /\ fetch_log' = Append(fetch_log, "ok")) =>
             \E r \in BagToSet(tasks') :
                 /\ r.pc = "send_decision"
                 /\ r.i = 20
                 /\ r.decision <=> (r.vote_count.yes >= config.min_yes_votes
                                    /\ r.vote_count.no <= config.max_no_votes)]_vars
    /\ []((Len(fetch_log) = 20 /\ fetch_log[20] = "ok" /\ results # {}) =>
             \/ \E r \in BagToSet(tasks) : r.pc = "react"
             \/ \E row \in vetting, m \in results :
                   /\ row.vote_ended
                   /\ row.decision_event_id = m.event_id)

\* The cap was reached with every page fetched, the start event never seen,
\* and votes counted on the way: the case is closed on the result.
C20_Witness ==
    /\ Len(fetch_log) = 20
    /\ \A k \in 1..20 : fetch_log[k] = "ok"
    /\ \E row \in vetting, m \in results :
          /\ row.vote_ended
          /\ row.decision_event_id = m.event_id
          /\ m.counts.yes >= 1

----------------------------------------------------------------------------
(* Properties of recovery, continued (RecoverSpec) *)

\* The tasks of a bag that are about one candidate, with their locals
TasksIn(bag, mxid) ==
    [r \in {x \in BagToSet(bag) : x.mxid = mxid} |-> bag[r]]

\* C21: a step of a closure for one candidate leaves every other candidate's
\* row (poll id, voting start time, vote_ended, decision id) and every other
\* candidate's closure (its counts and its set of counted senders) as they
\* were, with several closures in flight and interleaved at their awaits.
C21_ClosureTouchesOwnCase ==
    [][(restarts' = restarts /\ recovered' = recovered) =>
          \A mxid \in Candidates :
              TasksIn(tasks', mxid) # TasksIn(tasks, mxid) =>
                  \A other \in Candidates \ {mxid} :
                      /\ RowsOf(vetting', other) = RowsOf(vetting, other)
                      /\ TasksIn(tasks', other) = TasksIn(tasks, other)]_vars

\* One candidate's closure has closed its case on an accepting result while
\* another candidate's closure, its votes counted, is still at its send.
C21_Witness ==
    \E row \in vetting, x \in reactions :
        /\ row.vote_ended
        /\ row.decision_event_id = x.event_id
        /\ \E r \in BagToSet(tasks) :
              /\ r.mxid # row.mxid
              /\ r.pc = "send_decision"
              /\ r.users_voted # {}
              /\ \A row2 \in RowsOf(vetting, r.mxid) : ~row2.vote_ended

----------------------------------------------------------------------------
(* Properties of one closure, continued (ScanSpec) *)

\* C22: at every point of the scan and at its end, the yes, no and blank
\* counts add up to the number of senders held as having voted.
C22_CountsMatchVoters ==
    \A r \in BagToSet(tasks) :
        r.pc \in {"fetch", "send_decision"} =>
            r.vote_count.yes + r.vote_count.no + r.vote_count.blank
                = Cardinality(r.users_voted)

----------------------------------------------------------------------------
(* Properties of recovery, continued (RecoverSpec) *)

\* C23: a closure whose poll.end marker could not be published ends there:
\* it gets past the send only with the marker published, the step of the
\* failed send changes neither the table nor the room, and a case left open
\* with no closure in the running process stays so until the process is
\* started again.
C23_MarkerFailureEndsClosure ==
    /\ [](\A r \in BagToSet(tasks) :
             r.pc \in {"fetch", "report", "send_decision", "react"}
                 => r.poll_event_id \in poll_ends)
    /\ [][\A r \in BagToSet(tasks) :
             (r.pc = "send_end" /\ restarts' = restarts
              /\ {x \in BagToSet(tasks') : x.mxid = r.mxid} = {})
                 => /\ UNCHANGED <<vetting, results, reactions, poll_ends>>
                    /\ tasks' = Remove(tasks, r)]_vars
    /\ [][\A row \in vetting :
             (recovered /\ restarts' = restarts /\ ~row.vote_ended
              /\ TasksOf(row.mxid) = {})
                 => /\ row \in vetting'
                    /\ {x \in BagToSet(tasks') : x.mxid = row.mxid} = {}]_vars

\* The marker of an open poll could not be published: the closure is gone,
\* the case is as it was, nothing about it is in the room.
C23_Witness ==
    /\ recovered
    /\ \E row \in vetting :
          /\ row.poll_event_id # NULL
          /\ ~row.vote_ended
          /\ row.decision_event_id = NULL
          /\ row.poll_event_id \notin poll_ends
          /\ TasksOf(row.mxid) = {}
          /\ \A m \in results : m.mxid # row.mxid

====
